---- MODULE Spec2Model ----
(***************************************************************************)
(* steppy/adapter.py: the Adapter that translates the outputs of parent    *)
(* steps into the arguments of the current step.                           *)
(*                                                                         *)
(* Python objects are records tagged with their class (field cls):         *)
(*   [cls |-> "E", input_name, key]      the extractor namedtuple          *)
(*   [cls |-> "list" | "tuple" | "frozenset", items |-> <<...>>]          *)
(*   [cls |-> "dict", items |-> << <<k, v>>, ... >>]   insertion order     *)
(*   [cls |-> "int" | "str", val]                                          *)
(* The outcome of a call is [exc |-> FALSE, val |-> object] when it        *)
(* returns and [exc |-> TRUE, val |-> exception object] when it raises.    *)
(***************************************************************************)
EXTENDS Integers, Sequences, FiniteSets, TLC

VARIABLES
    key_first,         \* the interpreter evaluates a dict comprehension's key before its value
    adapting_recipes,  \* Adapter.adapting_recipes: << <<name, recipe>>, ... >> in iteration order
    pc,                \* per thread: where its adapt call stands
    all_inputs,        \* per call frame: the all_inputs argument of adapt
    idx,               \* per call frame: position of the for loop in adapting_recipes.items()
    adapted,           \* per call frame: the local dict adapted
    outcome,           \* per thread: what its last adapt call returned or raised
    arg,               \* per thread: the all_inputs object the caller passed (the caller's own reference)
    seen,              \* per all_inputs value: the outcomes callers have observed for it so far
    overlapped,        \* per thread: another call took a step in the middle of its call
    recipe,            \* resolver harness: the recipe handed to _construct
    inputs,            \* resolver harness: the all_inputs handed to _construct
    out                \* resolver harness: the outcome of _construct, or NotRun

vars == <<key_first, adapting_recipes, pc, all_inputs, idx, adapted, outcome, arg, seen,
          overlapped, recipe, inputs, out>>

-----------------------------------------------------------------------------
(* Bounds of the model *)

MaxLen == 2        \* longest list / tuple recipe drawn
MaxDepth == 2      \* deepest nesting of containers around a leaf recipe drawn
MaxEntries == 2    \* most entries in an adapter configuration

Threads == {1, 2}  \* the threads that call adapt on the one Adapter

-----------------------------------------------------------------------------
(* Python objects *)

E(input_name, key) == [cls |-> "E", input_name |-> input_name, key |-> key]

PyInt(n) == [cls |-> "int", val |-> n]
PyStr(s) == [cls |-> "str", val |-> s]
List(items) == [cls |-> "list", items |-> items]
Tuple(items) == [cls |-> "tuple", items |-> items]
Dict(items) == [cls |-> "dict", items |-> items]
FrozenSet(items) == [cls |-> "frozenset", items |-> items]

Return(v) == [exc |-> FALSE, val |-> v]
Raise(e) == [exc |-> TRUE, val |-> e]

KeyError(k) == [cls |-> "KeyError", msg |-> <<k>>]
TypeError(msg) == [cls |-> "TypeError", msg |-> msg]

\* class AdapterError(Exception); the first is the fault of deriving it from
\* KeyError
AdapterErrorBasesKeyError == {"AdapterError", "KeyError", "LookupError", "Exception"}
AdapterErrorBases == {"AdapterError", "Exception"}

AdapterError(msg) == [cls |-> "AdapterError", msg |-> msg]

\* the classes an exception object is an instance of
Mro(e) ==
    CASE e.cls = "AdapterError" -> AdapterErrorBases
      [] e.cls = "KeyError" -> {"KeyError", "LookupError", "Exception"}
      [] e.cls = "TypeError" -> {"TypeError", "Exception"}

\* an `except klass:` clause handles the outcome o
Catches(klass, o) == o.exc /\ klass \in Mro(o.val)

\* hash(v) succeeds: lists and dicts are unhashable, a tuple is hashable when
\* its elements are
RECURSIVE Hashable(_)
Hashable(v) ==
    CASE v.cls \in {"list", "dict"} -> FALSE
      [] v.cls = "tuple" -> \A i \in 1..Len(v.items) : Hashable(v.items[i])
      [] OTHER -> TRUE

\* the class named by hash's TypeError: the first unhashable object met
RECURSIVE UnhashableType(_)
UnhashableType(v) ==
    IF v.cls = "tuple"
    THEN UnhashableType(v.items[CHOOSE i \in 1..Len(v.items) :
                                   /\ ~Hashable(v.items[i])
                                   /\ \A j \in 1..(i-1) : Hashable(v.items[j])])
    ELSE v.cls

\* d[k] = v on a dict's items: an equal key keeps its place and takes the new
\* value, a new key goes last. Equality of keys is Python's ==, which for the
\* objects drawn here is equality of the records.
SetItem(items, k, v) ==
    IF \E j \in 1..Len(items) : items[j][1] = k
    THEN [j \in 1..Len(items) |-> IF items[j][1] = k THEN <<items[j][1], v>> ELSE items[j]]
    ELSE Append(items, <<k, v>>)

-----------------------------------------------------------------------------
(* Adapter._construct and the five constructors *)

NoSuchInputMsg(input_name) == <<"No such input: '", input_name, "'">>
MissingKeyMsg(input_name, key) ==
    <<"Input '", input_name, "' didn't have '", key, "' in its result.">>

RECURSIVE _construct(_, _)
RECURSIVE Comprehension(_, _, _, _, _)
RECURSIVE DictComprehension(_, _, _, _)
RECURSIVE ComprehensionReversed(_, _, _, _, _)
RECURSIVE DictComprehensionFirstWins(_, _, _, _)

\* return constant; the first is the fault of returning nothing
_construct_constant_none(ai, constant) == Return([cls |-> "NoneType"])
_construct_constant(ai, constant) == Return(constant)

\* The first two are faults: resolving the extracted object again, and
\* exchanging the two messages.
_construct_element_recursive(ai, element) ==
    IF element.input_name \in DOMAIN ai /\ element.key \in DOMAIN ai[element.input_name]
    THEN _construct(ai, ai[element.input_name][element.key])
    ELSE Raise(AdapterError(NoSuchInputMsg(element.input_name)))
_construct_element_swapped(ai, element) ==
    IF element.input_name \notin DOMAIN ai
    THEN Raise(AdapterError(MissingKeyMsg(element.input_name, element.key)))
    ELSE IF element.key \notin DOMAIN ai[element.input_name]
         THEN Raise(AdapterError(NoSuchInputMsg(element.input_name)))
         ELSE Return(ai[element.input_name][element.key])
_construct_element(ai, element) ==
    LET input_name == element.input_name
        key == element.key
        \* inner try: return input_results[key] / except KeyError: raise AdapterError
        inner(input_results) ==
            LET body == IF key \in DOMAIN input_results
                        THEN Return(input_results[key])
                        ELSE Raise(KeyError(key))
            IN  IF Catches("KeyError", body)
                THEN Raise(AdapterError(MissingKeyMsg(input_name, key)))
                ELSE body
        \* outer try: input_results = all_inputs[input_name], then the inner try
        outer == IF input_name \in DOMAIN ai
                 THEN inner(ai[input_name])
                 ELSE Raise(KeyError(input_name))
    IN  IF Catches("KeyError", outer)
        THEN Raise(AdapterError(NoSuchInputMsg(input_name)))
        ELSE outer

\* [self._construct(all_inputs, recipe) for recipe in items], left to right;
\* an exception in an element ends the comprehension. The first two are
\* faults: going on after a failure and raising the last one, and building the
\* result back to front.
ComprehensionLastError(ai, items, klass, i, acc) ==
    LET rs == [j \in 1..Len(items) |-> _construct(ai, items[j])]
        bad == {j \in 1..Len(items) : rs[j].exc}
    IN  IF bad = {}
        THEN Return([cls |-> klass, items |-> [j \in 1..Len(items) |-> rs[j].val]])
        ELSE rs[CHOOSE j \in bad : \A h \in bad : h <= j]
ComprehensionReversed(ai, items, klass, i, acc) ==
    IF i > Len(items)
    THEN Return([cls |-> klass, items |-> acc])
    ELSE LET r == _construct(ai, items[i])
         IN  IF r.exc THEN r
             ELSE ComprehensionReversed(ai, items, klass, i + 1, <<r.val>> \o acc)
Comprehension(ai, items, klass, i, acc) ==
    IF i > Len(items)
    THEN Return([cls |-> klass, items |-> acc])
    ELSE LET r == _construct(ai, items[i])
         IN  IF r.exc THEN r
             ELSE Comprehension(ai, items, klass, i + 1, Append(acc, r.val))

_construct_list(ai, lst) == Comprehension(ai, lst.items, "list", 1, <<>>)

_construct_tuple(ai, tup) == Comprehension(ai, tup.items, "tuple", 1, <<>>)

\* {self._construct(all_inputs, k): self._construct(all_inputs, v) for k, v in dic.items()}
\* Each entry evaluates its key and its value expression (key first from
\* Python 3.8 on, value first before), then stores the pair, which hashes the
\* key. The first is the fault of keeping the value of the first of two equal
\* keys.
DictComprehensionFirstWins(ai, entries, i, acc) ==
    IF i > Len(entries)
    THEN Return(Dict(acc))
    ELSE LET k == _construct(ai, entries[i][1])
             v == _construct(ai, entries[i][2])
         IN  IF k.exc THEN k
             ELSE IF v.exc THEN v
             ELSE IF ~Hashable(k.val)
                  THEN Raise(TypeError(<<"unhashable type: '", UnhashableType(k.val), "'">>))
                  ELSE DictComprehensionFirstWins(ai, entries, i + 1,
                           IF \E j \in 1..Len(acc) : acc[j][1] = k.val
                           THEN acc ELSE Append(acc, <<k.val, v.val>>))
DictComprehension(ai, entries, i, acc) ==
    IF i > Len(entries)
    THEN Return(Dict(acc))
    ELSE LET first == _construct(ai, entries[i][IF key_first THEN 1 ELSE 2])
         IN  IF first.exc THEN first
             ELSE LET second == _construct(ai, entries[i][IF key_first THEN 2 ELSE 1])
                  IN  IF second.exc THEN second
                      ELSE LET k == IF key_first THEN first.val ELSE second.val
                               v == IF key_first THEN second.val ELSE first.val
                           IN  IF ~Hashable(k)
                               THEN Raise(TypeError(<<"unhashable type: '", UnhashableType(k), "'">>))
                               ELSE DictComprehension(ai, entries, i + 1, SetItem(acc, k, v))

_construct_dict(ai, dic) == DictComprehension(ai, dic.items, 1, <<>>)

\* {E: ..., tuple: ..., list: ..., dict: ...}.get(recipe.__class__, self._construct_constant)
_construct(ai, r) ==
    CASE r.cls = "E" -> _construct_element(ai, r)
      [] r.cls = "tuple" -> _construct_tuple(ai, r)
      [] r.cls = "list" -> _construct_list(ai, r)
      [] r.cls = "dict" -> _construct_dict(ai, r)
      [] OTHER -> _construct_constant(ai, r)

-----------------------------------------------------------------------------
(* The objects the model draws recipes and inputs from *)

InputNames == {"a", "b"}
Keys == {"x", "y"}

Extractors == {E(n, k) : n \in InputNames, k \in Keys}
\* a frozenset is no list, tuple or dict, whatever it holds
Constants == {PyInt(7), PyStr("name"), FrozenSet(<<E("a", "x")>>)}
Leaves == Extractors \cup Constants
Elements == Extractors \cup {PyInt(7)}

SeqsUpTo(S, n) == UNION {[1..m -> S] : m \in 0..n}

\* containers of leaves: every list and tuple up to MaxLen, every one-entry
\* dict, and two-entry dicts whose values tell the entries apart
Flat ==
    {List(s) : s \in SeqsUpTo(Elements, MaxLen)} \cup
    {Tuple(s) : s \in SeqsUpTo(Elements, MaxLen)} \cup
    {Dict(<<>>)} \cup
    {Dict(<< <<k, v>> >>) : k \in Leaves, v \in Leaves} \cup
    {Dict(<< <<ks[1], vs[1]>>, <<ks[2], vs[2]>> >>) :
        ks \in {p \in Leaves \X Leaves : p[1] # p[2]},
        vs \in {<<PyInt(1), PyInt(2)>>, <<E("a", "x"), E("a", "y")>>}}

\* one more level of container around r, with r as an element of a list, of a
\* tuple, as a dict value and (a dict key must be hashable) as a dict key
Wrap(r) ==
    {List(<<r>>), List(<<r, E("b", "y")>>), Tuple(<<E("a", "x"), r>>),
     Dict(<< <<PyStr("name"), r>> >>)} \cup
    (IF Hashable(r) THEN {Dict(<< <<r, PyInt(7)>> >>)} ELSE {})

RECURSIVE Nested(_)
Nested(d) ==
    IF d = 0 THEN Leaves
    ELSE LET below == Nested(d - 1) IN below \cup UNION {Wrap(r) : r \in below}

RecipeSet == Flat \cup Nested(MaxDepth)

\* what a step's result may hold: a plain string, and objects that look like
\* recipes (an extractor, and a list, a tuple and a dict holding extractors)
Values == {PyStr("name"), E("b", "x"), List(<<E("b", "x")>>), Tuple(<<E("b", "x")>>),
           Dict(<< <<E("b", "x"), E("b", "y")>> >>)}

ResultsSet(n) ==
    IF n = "a"
    THEN UNION {[ks -> Values] : ks \in SUBSET Keys}
    ELSE {[k \in {"x"} |-> PyStr("name")]}

AllInputsSet ==
    UNION {{f \in [ns -> UNION {ResultsSet(n) : n \in ns}] : \A n \in ns : f[n] \in ResultsSet(n)}
           : ns \in SUBSET InputNames}

-----------------------------------------------------------------------------
(* The resolver on its own: _construct applied to a drawn recipe and inputs *)

NotRun == Return([cls |-> "NotRun"])

AdapterIdle ==
    /\ adapting_recipes = <<>>
    /\ pc = [t \in Threads |-> "idle"]
    /\ all_inputs = [t \in Threads |-> <<>>]
    /\ idx = [t \in Threads |-> 0]
    /\ adapted = [t \in Threads |-> <<>>]
    /\ outcome = [t \in Threads |-> NotRun]
    /\ arg = [t \in Threads |-> <<>>]
    /\ overlapped = [t \in Threads |-> FALSE]
    /\ seen = <<>>

InitResolve ==
    /\ key_first \in BOOLEAN
    /\ recipe \in RecipeSet
    /\ inputs \in AllInputsSet
    /\ out = NotRun
    /\ AdapterIdle

Construct ==
    /\ out = NotRun
    /\ out' = _construct(inputs, recipe)
    /\ UNCHANGED <<key_first, adapting_recipes, pc, all_inputs, idx, adapted, outcome,
                   arg, seen, overlapped, recipe, inputs>>

NextResolve == Construct

SpecResolve == InitResolve /\ [][NextResolve]_vars

-----------------------------------------------------------------------------
(* Adapter.__init__ and Adapter.adapt, called from two threads *)

ArgNames == <<"p", "q", "r", "s">>

\* the recipes configurations are made of
ArgRecipes ==
    {E("a", "x"),
     PyInt(7),
     List(<<E("a", "y"), E("b", "x")>>),
     Dict(<< <<E("a", "x"), E("b", "x")>> >>)}

\* dicts {argument name: recipe} of up to MaxEntries entries, in iteration order
Configs ==
    {[i \in 1..Len(rs) |-> <<ArgNames[i], rs[i]>>] :
        rs \in UNION {[1..m -> ArgRecipes] : m \in 1..MaxEntries}}

\* the all_inputs objects callers pass
InputsSample ==
    {<<>>,
     [n \in {"a", "b"} |-> IF n = "a" THEN [k \in {"x", "y"} |-> PyStr("name")]
                                      ELSE [k \in {"x"} |-> PyInt(7)]],
     [n \in {"a", "b"} |-> IF n = "a" THEN [k \in {"x"} |-> List(<<E("b", "x")>>)]
                                      ELSE [k \in {"x"} |-> PyInt(7)]]}

\* self.adapting_recipes = adapting_recipes
__init__(recipes) == recipes

\* every invocation of adapt has a frame of its own, which holds its parameter
\* all_inputs and its local adapted; ParamShared and LocalShared are the faults
\* of keeping the one or the other on the Adapter, for all invocations
ParamShared(t) == 1
ParamOf(t) == t

LocalShared(t) == 1
LocalOf(t) == t

\* adapted[name] = value; the first is the fault of starting a new dict each turn
BindOnlyLatest(items, name, value) == << <<name, value>> >>
Bind(items, name, value) == SetItem(items, name, value)

\* the caller of thread t sees the outcome o of its call
Observe(t, o) == seen' = [seen EXCEPT ![arg[t]] = @ \cup {o}]

Init ==
    /\ key_first \in BOOLEAN
    /\ adapting_recipes \in {__init__(c) : c \in Configs}
    /\ pc = [t \in Threads |-> "idle"]
    /\ all_inputs = [t \in Threads |-> <<>>]
    /\ idx = [t \in Threads |-> 0]
    /\ adapted = [t \in Threads |-> <<>>]
    /\ outcome = [t \in Threads |-> NotRun]
    /\ arg = [t \in Threads |-> <<>>]
    /\ overlapped = [t \in Threads |-> FALSE]
    /\ seen = [ai \in InputsSample |-> {}]
    /\ recipe = PyInt(0)
    /\ inputs = <<>>
    /\ out = NotRun

\* a thread calls adapter.adapt(ai): the frame is set up and adapted = {}
Call(t, ai) ==
    /\ pc[t] \in {"idle", "returned", "raised"}
    /\ pc' = [pc EXCEPT ![t] = "loop"]
    /\ arg' = [arg EXCEPT ![t] = ai]
    /\ all_inputs' = [all_inputs EXCEPT ![ParamOf(t)] = ai]
    /\ adapted' = [adapted EXCEPT ![LocalOf(t)] = <<>>]
    /\ idx' = [idx EXCEPT ![t] = 1]
    /\ outcome' = [outcome EXCEPT ![t] = NotRun]
    /\ overlapped' = [overlapped EXCEPT ![t] = FALSE]
    /\ UNCHANGED <<key_first, adapting_recipes, seen, recipe, inputs, out>>

\* one turn of `for name, recipe in self.adapting_recipes.items()`:
\* adapted[name] = self._construct(all_inputs, recipe), or the exception of
\* _construct leaves adapt. _construct reads its two arguments and writes
\* nothing, so the turn is one step; other threads run between the turns.
Iterate(t) ==
    /\ pc[t] = "loop"
    /\ idx[t] <= Len(adapting_recipes)
    /\ LET name == adapting_recipes[idx[t]][1]
           r == _construct(all_inputs[ParamOf(t)], adapting_recipes[idx[t]][2])
       IN  IF r.exc
           THEN /\ pc' = [pc EXCEPT ![t] = "raised"]
                /\ outcome' = [outcome EXCEPT ![t] = r]
                /\ Observe(t, r)
                /\ UNCHANGED <<adapted, idx>>
           ELSE /\ adapted' = [adapted EXCEPT ![LocalOf(t)] = Bind(@, name, r.val)]
                /\ idx' = [idx EXCEPT ![t] = @ + 1]
                /\ UNCHANGED <<pc, outcome, seen>>
    /\ overlapped' = [u \in Threads |->
                         overlapped[u] \/ (u # t /\ pc[u] = "loop" /\ idx[u] > 1)]
    /\ UNCHANGED <<key_first, adapting_recipes, all_inputs, arg, recipe, inputs, out>>

\* return adapted
ReturnAdapted(t) ==
    /\ pc[t] = "loop"
    /\ idx[t] > Len(adapting_recipes)
    /\ pc' = [pc EXCEPT ![t] = "returned"]
    /\ outcome' = [outcome EXCEPT ![t] = Return(Dict(adapted[LocalOf(t)]))]
    /\ Observe(t, Return(Dict(adapted[LocalOf(t)])))
    /\ UNCHANGED <<key_first, adapting_recipes, all_inputs, idx, adapted, arg, overlapped,
                   recipe, inputs, out>>

Next ==
    \/ \E t \in Threads, ai \in InputsSample : Call(t, ai)
    \/ \E t \in Threads : Iterate(t)
    \/ \E t \in Threads : ReturnAdapted(t)

Spec == Init /\ [][Next]_vars

-----------------------------------------------------------------------------
(* What the claims about the resolver speak of *)

RECURSIVE Concat(_)
Concat(ss) == IF ss = <<>> THEN <<>> ELSE Head(ss) \o Concat(Tail(ss))

\* the extractors of a recipe in the order the resolver comes to them:
\* sequence elements left to right, dict entries in iteration order
RECURSIVE Lookups(_)
Lookups(r) ==
    CASE r.cls = "E" -> <<r>>
      [] r.cls \in {"list", "tuple"} ->
            Concat([i \in 1..Len(r.items) |-> Lookups(r.items[i])])
      [] r.cls = "dict" ->
            Concat([i \in 1..Len(r.items) |->
                        IF key_first
                        THEN Lookups(r.items[i][1]) \o Lookups(r.items[i][2])
                        ELSE Lookups(r.items[i][2]) \o Lookups(r.items[i][1])])
      [] OTHER -> <<>>

Present(ai, e) == e.input_name \in DOMAIN ai /\ e.key \in DOMAIN ai[e.input_name]

\* extractor number i of ls is the first one reached that fails: those before it
\* are found, and (a dict key built from them can be stored) are hashable
FirstFailing(ai, ls, i) ==
    /\ ~Present(ai, ls[i])
    /\ \A j \in 1..(i - 1) :
          Present(ai, ls[j]) /\ Hashable(ai[ls[j].input_name][ls[j].key])

\* C2: an extractor (n, k) with n in all_inputs and k in all_inputs[n] yields
\* all_inputs[n][k] itself, also when that object is an extractor or a list,
\* tuple or dict holding extractors: it is not resolved again. The same holds
\* for each element of a list or tuple of such extractors.
C2_ExtractedUnchanged ==
    out # NotRun =>
        /\ (recipe.cls = "E" /\ Present(inputs, recipe)) =>
                out = Return(inputs[recipe.input_name][recipe.key])
        /\ (/\ recipe.cls \in {"list", "tuple"}
            /\ \A i \in 1..Len(recipe.items) :
                  recipe.items[i].cls = "E" /\ Present(inputs, recipe.items[i])) =>
                /\ ~out.exc
                /\ Len(out.val.items) = Len(recipe.items)
                /\ \A i \in 1..Len(recipe.items) :
                      out.val.items[i] =
                          inputs[recipe.items[i].input_name][recipe.items[i].key]

C2_Witness ==
    /\ recipe = E("a", "x")
    /\ DOMAIN inputs = {"a", "b"}
    /\ "x" \in DOMAIN inputs["a"]
    /\ inputs["a"]["x"].cls = "list"
    /\ inputs["a"]["x"].items[1].cls = "E"
    /\ out = Return(inputs["a"]["x"])

\* C3: when the first failing extractor (n, k) of a recipe, at whatever depth,
\* has n in all_inputs and k not in all_inputs[n], the resolver raises the
\* AdapterError "Input 'n' didn't have 'k' in its result.", never "No such input".
C3_MissingKey ==
    out # NotRun =>
        \A i \in 1..Len(Lookups(recipe)) :
            LET e == Lookups(recipe)[i] IN
            (FirstFailing(inputs, Lookups(recipe), i) /\ e.input_name \in DOMAIN inputs) =>
                /\ out.exc
                /\ out.val.cls = "AdapterError"
                /\ out.val.msg = <<"Input '", e.input_name, "' didn't have '", e.key,
                                   "' in its result.">>
                /\ out.val.msg # <<"No such input: '", e.input_name, "'">>

C3_Witness ==
    /\ recipe = List(<<E("a", "y")>>)
    /\ "a" \in DOMAIN inputs
    /\ DOMAIN inputs["a"] = {"x"}
    /\ out.exc
    /\ out.val.cls = "AdapterError"
    /\ Len(out.val.msg) = 5

\* C4: when the first failing extractor (n, k) of a recipe has n not in
\* all_inputs, the resolver raises the AdapterError "No such input: 'n'",
\* whatever k is and wherever the extractor stands: in a list, a tuple, a dict
\* key or a dict value, at any depth.
C4_UnknownInput ==
    out # NotRun =>
        \A i \in 1..Len(Lookups(recipe)) :
            LET e == Lookups(recipe)[i] IN
            (FirstFailing(inputs, Lookups(recipe), i) /\ e.input_name \notin DOMAIN inputs) =>
                out = Raise([cls |-> "AdapterError",
                             msg |-> <<"No such input: '", e.input_name, "'">>])

C4_Witness ==
    /\ recipe.cls = "dict"
    /\ Len(recipe.items) = 1
    /\ recipe.items[1][1].cls = "tuple"
    /\ recipe.items[1][1].items[2] = E("b", "y")
    /\ DOMAIN inputs = {"a"}
    /\ "x" \in DOMAIN inputs["a"]
    /\ out.exc
    /\ out.val.msg = <<"No such input: '", "b", "'">>

\* The entries of the dict recipe resolved one by one: what C8 speaks of.
DictKey(i) == _construct(inputs, recipe.items[i][1])
DictValue(i) == _construct(inputs, recipe.items[i][2])
DictResolves ==
    \A i \in 1..Len(recipe.items) : ~DictKey(i).exc /\ ~DictValue(i).exc
FirstWith(k) ==
    CHOOSE i \in 1..Len(recipe.items) :
        DictKey(i).val = k /\ \A h \in 1..(i - 1) : DictKey(h).val # k
LastWith(k) ==
    CHOOSE i \in 1..Len(recipe.items) :
        DictKey(i).val = k /\ \A h \in (i + 1)..Len(recipe.items) : DictKey(h).val # k

\* the outcome is the dict the resolved keys make up, each once, in the order
\* the recipe first comes to them, each bound to the resolved value of the
\* last entry whose key resolves to it
LastWriteWins ==
    /\ ~out.exc
    /\ out.val.cls = "dict"
    /\ {out.val.items[j][1] : j \in 1..Len(out.val.items)} =
           {DictKey(i).val : i \in 1..Len(recipe.items)}
    /\ \A j \in 1..Len(out.val.items) :
          /\ out.val.items[j][2] = DictValue(LastWith(out.val.items[j][1])).val
          /\ \A h \in 1..(j - 1) :
                /\ out.val.items[h][1] # out.val.items[j][1]
                /\ FirstWith(out.val.items[h][1]) < FirstWith(out.val.items[j][1])

C9_SequenceOrder ==
    (out # NotRun /\ recipe.cls \in {"list", "tuple"}) =>
        LET R(i) == _construct(inputs, recipe.items[i])
        IN  (\A i \in 1..Len(recipe.items) : ~R(i).exc) =>
                /\ ~out.exc
                /\ out.val.cls = recipe.cls
                /\ Len(out.val.items) = Len(recipe.items)
                /\ \A i \in 1..Len(recipe.items) : out.val.items[i] = R(i).val

C9_Witness ==
    /\ recipe.cls = "tuple"
    /\ Len(recipe.items) = 2
    /\ recipe.items[1] = E("a", "x")
    /\ recipe.items[2].cls = "dict"
    /\ ~out.exc
    /\ out.val.cls = "tuple"
    /\ out.val.items[1] = PyStr("name")
    /\ out.val.items[2].cls = "dict"
    /\ out.val.items[2].items[1][2] = E("b", "x")

\* C10: a recipe that is no extractor, list, tuple or dict comes back unchanged
\* whatever all_inputs is, the empty one included, and so does a list of such
\* recipes element by element; an extractor is looked up, so it fails on the
\* empty all_inputs instead of coming back as the tuple of its fields.
C10_ConstantPassthrough ==
    out # NotRun =>
        /\ recipe.cls \notin {"E", "list", "tuple", "dict"} => out = Return(recipe)
        /\ (/\ recipe.cls \in {"list", "tuple"}
            /\ \A i \in 1..Len(recipe.items) :
                  recipe.items[i].cls \notin {"E", "list", "tuple", "dict"}) =>
                out = Return(recipe)
        /\ (recipe.cls = "E" /\ DOMAIN inputs = {}) => out.exc

C10_Witness ==
    /\ recipe = FrozenSet(<<E("a", "x")>>)
    /\ DOMAIN inputs = {}
    /\ out = Return(recipe)

-----------------------------------------------------------------------------
(* What the claims about adapt speak of *)

Done(t) == pc[t] \in {"returned", "raised"}

Recipe(i) == adapting_recipes[i][2]
Name(i) == adapting_recipes[i][1]

\* the extractors of the whole configuration, entry after entry
ConfigLookups == Concat([i \in 1..Len(adapting_recipes) |-> Lookups(Recipe(i))])

\* the configuration entry extractor number i of ConfigLookups stands in
EntryOf(i) ==
    CHOOSE m \in 1..Len(adapting_recipes) :
        /\ i <= Len(Concat([h \in 1..m |-> Lookups(Recipe(h))]))
        /\ i > Len(Concat([h \in 1..(m - 1) |-> Lookups(Recipe(h))]))

\* the error the specification gives a failing extractor
ExtractorError(ai, e) ==
    IF e.input_name \notin DOMAIN ai
    THEN [cls |-> "AdapterError", msg |-> <<"No such input: '", e.input_name, "'">>]
    ELSE [cls |-> "AdapterError",
          msg |-> <<"Input '", e.input_name, "' didn't have '", e.key, "' in its result.">>]

\* adapt run with nothing else running: entry after entry from number i on
RECURSIVE Alone(_, _, _)
Alone(ai, i, acc) ==
    IF i > Len(adapting_recipes)
    THEN Return(Dict(acc))
    ELSE LET r == _construct(ai, Recipe(i))
         IN  IF r.exc THEN r ELSE Alone(ai, i + 1, SetItem(acc, Name(i), r.val))

\* C1: when every recipe of the configuration resolves against all_inputs,
\* adapt returns a dict whose keys are exactly the configured argument names,
\* each once, each bound to what its own recipe resolves to.
C1_AdaptKeysAndValues ==
    \A t \in Threads :
        Done(t) =>
            LET n == Len(adapting_recipes)
                R(i) == _construct(arg[t], Recipe(i))
            IN  (\A i \in 1..n : ~R(i).exc) =>
                    /\ pc[t] = "returned"
                    /\ ~outcome[t].exc
                    /\ outcome[t].val.cls = "dict"
                    /\ Len(outcome[t].val.items) = n
                    /\ {outcome[t].val.items[j][1] : j \in 1..n} = {Name(i) : i \in 1..n}
                    /\ \A i \in 1..n : \E j \in 1..n :
                          outcome[t].val.items[j] = <<Name(i), R(i).val>>

C1_Witness ==
    /\ Len(adapting_recipes) = 2
    /\ pc[1] = "returned"
    /\ outcome[1] = Return(Dict(<< <<"p", PyStr("name")>>,
                                   <<"q", List(<<PyStr("name"), PyInt(7)>>)>> >>))

\* extractor number i of ls fails and every extractor before it is found
FirstFailingExtractor(ai, ls, i) ==
    /\ ~Present(ai, ls[i])
    /\ \A j \in 1..(i - 1) : Present(ai, ls[j])

C6_ConcurrentCallsIndependent ==
    \A t \in Threads : Done(t) => outcome[t] = Alone(arg[t], 1, <<>>)

C6_Witness ==
    /\ Len(adapting_recipes) = 2
    /\ pc[1] = "returned"
    /\ overlapped[1]
    /\ overlapped[2]
    /\ pc[2] = "loop"
    /\ idx[2] = 2
    /\ arg[1] # arg[2]
    /\ adapted[2] # <<>>
    /\ outcome[1] # Return(Dict(adapted[2]))

\* C7: every step leaves the stored configuration as it is, a step of a running
\* call leaves the all_inputs object its caller passed as it is, and all the
\* calls made so far with the same all_inputs have ended with one and the same
\* outcome, whatever calls ran in between.
C7_RepeatableAdapt ==
    [][/\ adapting_recipes' = adapting_recipes
       /\ \A t \in Threads : (pc[t] = "loop" /\ pc'[t] = "loop") => arg'[t] = arg[t]
       /\ \A ai \in DOMAIN seen' : Cardinality(seen'[ai]) <= 1]_vars

C7_Witness ==
    /\ pc[1] = "returned"
    /\ pc[2] = "returned"
    /\ arg[1] = arg[2]
    /\ DOMAIN arg[1] = {"a", "b"}
    /\ outcome[1] = outcome[2]
    /\ seen[arg[1]] = {outcome[1]}
    /\ \A ai \in InputsSample \ {arg[1]} : \E o \in seen[ai] : o.exc

====
